---- MODULE Spec2Model ----
(***************************************************************************)
(* Model of the todo_tracker backend: the Task entity (tasks/models.py),   *)
(* its serializers (tasks/serializers.py), the owner-scoped TaskViewSet    *)
(* (tasks/views.py), the IsOwner permission (user_account/permissions.py),  *)
(* the admin bulk actions (tasks/admin.py), and the accounts: the User      *)
(* model (user_account/models.py), its serializers                          *)
(* (user_account/serializers.py) and the register, login, logout and        *)
(* profile views (user_account/views.py).                                   *)
(*                                                                         *)
(* Time is a day counter: date.today() and timezone.now() both read the    *)
(* variable today.  A request payload is a function whose DOMAIN is the    *)
(* set of keys the client sent, as a Python dict.  The bookkeeping columns *)
(* created_at and updated_at, which no operation reads, are left out.      *)
(***************************************************************************)
EXTENDS Integers, Sequences, FiniteSets, TLC

\* ---- bounds of the model ----
MaxTasks == 1
MaxDay == 1

\* ---- program constants ----
None == -1
TitleMaxLength == 70
Users == {"alice", "bob"}
STATUS_CHOICE == {"pending", "in_process", "completed"}
PRIORITY_CHOICES == {"low", "medium", "high"}
StatusDefault == "pending"
PriorityDefault == "medium"
\* class attributes of Task that hold choices; set_status reads STATUS_CHOICES
TaskClassAttrs == {"STATUS_CHOICE", "PRIORITY_CHOICES"}
\* choice[0] of a dict key: the first character of the key
FirstChar ==
  [k \in STATUS_CHOICE \cup PRIORITY_CHOICES |->
     CASE k = "pending" -> "p" [] k = "in_process" -> "i" [] k = "completed" -> "c"
       [] k = "low" -> "l" [] k = "medium" -> "m" [] k = "high" -> "h"]

VARIABLES tasks, next_id, today, resp, users, next_uid, tokens, next_key, inflight

vars == <<tasks, next_id, today, resp, users, next_uid, tokens, next_key, inflight>>

\* the user table, the token table and the requests between two database
\* operations, which the task operations taken as whole requests leave alone
account == <<users, next_uid, tokens, next_key, inflight>>

\* ---- helpers for payloads (Python dicts) ----
Has(d, k) == k \in DOMAIN d
Get(d, k, default) == IF k \in DOMAIN d THEN d[k] ELSE default
Opt(k, vals) == {<<>>} \cup {k :> v : v \in vals}
Pop(d, k) == [x \in (DOMAIN d) \ {k} |-> d[x]]

\* str.strip() on a title held as a sequence of one-character strings
RECURSIVE lstrip(_)
lstrip(s) == IF s # <<>> /\ Head(s) = " " THEN lstrip(Tail(s)) ELSE s
RECURSIVE rstrip(_)
rstrip(s) ==
  IF s # <<>> /\ s[Len(s)] = " " THEN rstrip(SubSeq(s, 1, Len(s) - 1)) ELSE s
strip(s) == rstrip(lstrip(s))

\* ---- Task model (tasks/models.py) ----
now == today

mark_complete(task) ==
  [task EXCEPT !.status = "completed", !.completed_at = now]

\* variant: un-completing restores in_process instead of pending
mark_incomplete_in_process(task) ==
  [task EXCEPT !.status = "in_process", !.completed_at = None]

mark_incomplete(task) ==
  [task EXCEPT !.status = "pending", !.completed_at = None]

\* variant: only a pending task is completed by a toggle
toggle_complete_pending_only(task) ==
  IF task.status # "pending" THEN mark_incomplete(task) ELSE mark_complete(task)

toggle_complete(task) ==
  IF task.status = "completed" THEN mark_incomplete(task) ELSE mark_complete(task)

\* variant: the status is not consulted
is_overdue_any_status(task) ==
  IF task.due_date # None THEN task.due_date < today ELSE FALSE

is_overdue(task) ==
  IF task.due_date # None /\ task.status # "completed"
  THEN task.due_date < today
  ELSE FALSE

is_completed(task) == task.status = "completed"

\* ---- serializers (tasks/serializers.py) ----
TaskSerializer(id, task) ==
  [id |-> id, title |-> task.title, description |-> task.description,
   status |-> task.status, priority |-> task.priority,
   due_date |-> task.due_date, completed_at |-> task.completed_at,
   is_overdue |-> is_overdue(task), is_completed |-> is_completed(task),
   owner |-> task.user]

\* variant: the owner is listed among the serializer fields
WritableFields_with_user ==
  {"title", "description", "status", "priority", "due_date", "user"}

\* fields a create/update payload may set ('id' and 'warning' are read-only)
WritableFields == {"title", "description", "status", "priority", "due_date"}

\* variant: the value is tested for emptiness without being trimmed first
validate_title_unstripped(value) == value # <<>>

validate_title(value) == strip(value) # <<>>

\* TaskCreateSerializer.get_warning / TaskUpdateSerializer.get_warning: the
\* advisory text in a one-element sequence, the empty sequence for None
get_warning(obj) ==
  IF obj.due_date # None /\ obj.due_date < today
  THEN <<"Warning: Due date is in the past.">>
  ELSE <<>>

\* field errors of the create serializer's is_valid()
CreateErrors(data) ==
  {f \in {"title", "description"} : ~Has(data, f)}
  \cup {f \in {"title"} : Has(data, f)
          /\ (~validate_title(data[f]) \/ Len(strip(data[f])) > TitleMaxLength)}
  \cup {f \in {"status"} : Has(data, f) /\ data[f] \notin STATUS_CHOICE}
  \cup {f \in {"priority"} : Has(data, f) /\ data[f] \notin PRIORITY_CHOICES}

\* field errors of the update serializer's is_valid() with partial=True
UpdateErrors(data) ==
  {f \in {"title"} : Has(data, f)
          /\ (~validate_title(data[f]) \/ Len(strip(data[f])) > TitleMaxLength)}
  \cup {f \in {"status"} : Has(data, f) /\ data[f] \notin STATUS_CHOICE}
  \cup {f \in {"priority"} : Has(data, f) /\ data[f] \notin PRIORITY_CHOICES}

\* validated_data: the writable keys only, the title trimmed
Validated(data) ==
  [f \in (DOMAIN data) \cap WritableFields |->
     IF f = "title" THEN strip(data[f]) ELSE data[f]]

TaskCreateSerializer_create(user, validated_data) ==
  [user |-> user,
   title |-> validated_data.title,
   description |-> validated_data.description,
   status |-> Get(validated_data, "status", StatusDefault),
   priority |-> Get(validated_data, "priority", PriorityDefault),
   due_date |-> Get(validated_data, "due_date", None),
   completed_at |-> None]

\* setattr(instance, field, value) for every remaining key, then save()
SetAttrs(instance, d) ==
  [f \in DOMAIN instance |-> IF f \in DOMAIN d THEN d[f] ELSE instance[f]]

TaskUpdateSerializer_update(instance, validated_data) ==
  LET new_status == Get(validated_data, "status", instance.status) IN
  IF new_status = "completed" /\ instance.status # "completed"
  THEN SetAttrs(mark_complete(instance), Pop(validated_data, "status"))
  ELSE IF new_status # "completed" /\ instance.status = "completed"
  THEN SetAttrs(mark_incomplete(instance), Pop(validated_data, "status"))
  ELSE SetAttrs(instance, validated_data)

\* ---- permissions and scoping ----
has_object_permission(user, obj) == obj.user = user

\* variant: the queryset is not filtered by owner
get_queryset_all(user) == DOMAIN tasks

get_queryset(user) == {id \in DOMAIN tasks : tasks[id].user = user}

get_permissions(action) ==
  IF action \in {"create", "list"}
  THEN {"IsAuthenticated"}
  ELSE {"IsAuthenticated", "IsOwner"}

\* variant: the lookup runs over every task and no object permission is checked
get_object_unscoped(user, action, pk) ==
  IF pk \notin DOMAIN tasks THEN 404 ELSE 200

\* get_object(): look pk up in the scoped queryset (404), then check the
\* object permissions of the action (403); 200 when the object is handed over
get_object(user, action, pk) ==
  IF pk \notin get_queryset(user) THEN 404
  ELSE IF "IsOwner" \in get_permissions(action)
          /\ ~has_object_permission(user, tasks[pk]) THEN 403
  ELSE 200

\* ---- responses ----
\* The last request and its response: the operation, the caller, the pk and
\* the payload sent; the status code, the task representations returned, the
\* count, the fields in error (or the values an error message lists) and the
\* exception raised.  before holds the instance as get_object() loaded it;
\* chain holds the statuses a task had before each toggle of an unbroken run
\* of toggles on it.
Response(op, caller, pk, data, code, before, returned, count, errors, exc) ==
  [op |-> op, caller |-> caller, pk |-> pk, data |-> data, code |-> code,
   before |-> before, tasks |-> returned, count |-> count, errors |-> errors,
   exc |-> exc, chain |-> <<>>]

Init ==
  /\ tasks = <<>>
  /\ next_id = 1
  /\ today = 0
  /\ resp = Response("init", "", 0, <<>>, 0, {}, {}, None, {}, "")
  /\ users = <<>>
  /\ next_uid = 1
  /\ tokens = <<>>
  /\ next_key = 1
  /\ inflight = <<>>

\* ---- inputs ----
Days == 0..MaxDay
StatusInputs == STATUS_CHOICE \cup {"bogus"}
Pks == 1..MaxTasks

\* POST /api/tasks/
TaskViewSet_create(user, data) ==
  LET errors == CreateErrors(data) IN
  IF errors = {}
  THEN LET task == TaskCreateSerializer_create(user, Validated(data)) IN
       /\ next_id <= MaxTasks
       /\ tasks' = (next_id :> task) @@ tasks
       /\ next_id' = next_id + 1
       /\ resp' = Response("create", user, next_id, data, 201, {},
                           {TaskSerializer(next_id, task)}, None, {}, "")
       /\ UNCHANGED today
  ELSE /\ resp' = Response("create", user, 0, data, 400, {}, {}, None, errors, "")
       /\ UNCHANGED <<tasks, next_id, today>>

\* the clock advances by one day
Tick ==
  /\ today < MaxDay
  /\ today' = today + 1
  /\ resp' = Response("tick", "", 0, <<>>, 0, {}, {}, None, {}, "")
  /\ UNCHANGED <<tasks, next_id>>

\* GET /api/tasks/ with the optional status / priority filters
TaskViewSet_list(user, params) ==
  LET queryset ==
        {id \in get_queryset(user) :
           /\ Has(params, "status") => tasks[id].status = params.status
           /\ Has(params, "priority") => tasks[id].priority = params.priority} IN
  /\ resp' = Response("list", user, 0, params, 200, {},
                      {TaskSerializer(id, tasks[id]) : id \in queryset},
                      Cardinality(queryset), {}, "")
  /\ UNCHANGED <<tasks, next_id, today>>

\* GET /api/tasks/{id}/
TaskViewSet_retrieve(user, pk) ==
  LET code == get_object(user, "retrieve", pk) IN
  /\ resp' = IF code = 200
             THEN Response("retrieve", user, pk, <<>>, 200, {},
                           {TaskSerializer(pk, tasks[pk])}, None, {}, "")
             ELSE Response("retrieve", user, pk, <<>>, code, {}, {}, None, {}, "")
  /\ UNCHANGED <<tasks, next_id, today>>

\* variant: the fields that pass are saved before the errors are reported
TaskViewSet_partial_update_fieldwise(user, pk, data) ==
  LET code == get_object(user, "partial_update", pk)
      errors == UpdateErrors(data)
      passed == [f \in (DOMAIN data) \ errors |-> data[f]] IN
  IF code # 200
  THEN /\ resp' = Response("partial_update", user, pk, data, code, {}, {}, None, {}, "")
       /\ UNCHANGED <<tasks, next_id, today>>
  ELSE LET updated_task == TaskUpdateSerializer_update(tasks[pk], Validated(passed)) IN
       /\ tasks' = [tasks EXCEPT ![pk] = updated_task]
       /\ resp' = IF errors # {}
                  THEN Response("partial_update", user, pk, data, 400, {}, {},
                                None, errors, "")
                  ELSE Response("partial_update", user, pk, data, 200, {tasks[pk]},
                                {TaskSerializer(pk, updated_task)}, None, {}, "")
       /\ UNCHANGED <<next_id, today>>

\* PATCH /api/tasks/{id}/
TaskViewSet_partial_update(user, pk, data) ==
  LET code == get_object(user, "partial_update", pk)
      errors == UpdateErrors(data) IN
  IF code # 200
  THEN /\ resp' = Response("partial_update", user, pk, data, code, {}, {}, None, {}, "")
       /\ UNCHANGED <<tasks, next_id, today>>
  ELSE IF errors # {}
  THEN /\ resp' = Response("partial_update", user, pk, data, 400, {}, {},
                           None, errors, "")
       /\ UNCHANGED <<tasks, next_id, today>>
  ELSE LET updated_task == TaskUpdateSerializer_update(tasks[pk], Validated(data)) IN
       /\ tasks' = [tasks EXCEPT ![pk] = updated_task]
       /\ resp' = Response("partial_update", user, pk, data, 200, {tasks[pk]},
                           {TaskSerializer(pk, updated_task)}, None, {}, "")
       /\ UNCHANGED <<next_id, today>>

\* DELETE /api/tasks/{id}/
TaskViewSet_destroy(user, pk) ==
  LET code == get_object(user, "destroy", pk) IN
  IF code # 200
  THEN /\ resp' = Response("destroy", user, pk, <<>>, code, {}, {}, None, {}, "")
       /\ UNCHANGED <<tasks, next_id, today>>
  ELSE /\ tasks' = [id \in (DOMAIN tasks) \ {pk} |-> tasks[id]]
       /\ resp' = Response("destroy", user, pk, <<>>, 200, {}, {}, None, {}, "")
       /\ UNCHANGED <<next_id, today>>

\* the status before the previous toggle, when the last request was a toggle
\* of the same task
ToggleChain(last, pk) ==
  IF last.op = "toggle_complete" /\ last.code = 200 /\ last.pk = pk
  THEN <<last.chain[Len(last.chain)]>>
  ELSE <<>>

\* POST /api/tasks/{id}/complete/
TaskViewSet_toggle_complete(user, pk) ==
  LET code == get_object(user, "toggle_complete", pk) IN
  IF code # 200
  THEN /\ resp' = Response("toggle_complete", user, pk, <<>>, code, {}, {}, None, {}, "")
       /\ UNCHANGED <<tasks, next_id, today>>
  ELSE LET task == toggle_complete(tasks[pk]) IN
       /\ tasks' = [tasks EXCEPT ![pk] = task]
       /\ resp' = [Response("toggle_complete", user, pk, <<>>, 200, {tasks[pk]},
                            {TaskSerializer(pk, task)}, None, {}, "")
                     EXCEPT !.chain = ToggleChain(resp, pk) \o <<tasks[pk].status>>]
       /\ UNCHANGED <<next_id, today>>

\* the status values the overdue query filters on
OverdueStatusIn == {"pending", "in_progress"}

\* GET /api/tasks/overdue/ ; due_date__lt never matches a NULL due_date
TaskViewSet_overdue(user) ==
  LET overdue_tasks ==
        {id \in get_queryset(user) :
           /\ tasks[id].due_date # None
           /\ tasks[id].due_date < today
           /\ tasks[id].status \in OverdueStatusIn} IN
  /\ resp' = Response("overdue", user, 0, <<>>, 200, {},
                      {TaskSerializer(id, tasks[id]) : id \in overdue_tasks},
                      Cardinality(overdue_tasks), {}, "")
  /\ UNCHANGED <<tasks, next_id, today>>

\* GET /api/tasks/today/
TaskViewSet_today(user) ==
  LET today_tasks ==
        {id \in get_queryset(user) : tasks[id].due_date = today} IN
  /\ resp' = Response("today", user, 0, <<>>, 200, {},
                      {TaskSerializer(id, tasks[id]) : id \in today_tasks},
                      Cardinality(today_tasks), {}, "")
  /\ UNCHANGED <<tasks, next_id, today>>

\* admin action "Mark selected tasks as completed" on one selected task
TaskAdmin_mark_as_completed(pk) ==
  /\ pk \in DOMAIN tasks
  /\ tasks' = [tasks EXCEPT ![pk] = mark_complete(tasks[pk])]
  /\ resp' = Response("mark_complete", "admin", pk, <<>>, 200, {}, {}, None, {}, "")
  /\ UNCHANGED <<next_id, today>>

\* admin action "Mark selected tasks as pending" on one selected task
TaskAdmin_mark_as_pending(pk) ==
  /\ pk \in DOMAIN tasks
  /\ tasks' = [tasks EXCEPT ![pk] = mark_incomplete(tasks[pk])]
  /\ resp' = Response("mark_incomplete", "admin", pk, <<>>, 200, {}, {}, None, {}, "")
  /\ UNCHANGED <<next_id, today>>

\* Task.set_status: names the class attribute STATUS_CHOICES, then takes
\* choice[0] of every key.  Returns the exception raised ("" for none), the
\* values the error message lists, and the instance as saved.
set_status(task, status) ==
  IF "STATUS_CHOICES" \notin TaskClassAttrs
  THEN [exc |-> "AttributeError", listed |-> {}, task |-> task]
  ELSE LET valid_statuses == {FirstChar[k] : k \in STATUS_CHOICE} IN
       IF status \in valid_statuses
       THEN [exc |-> "", listed |-> {},
             task |-> [task EXCEPT
                         !.status = status,
                         !.completed_at =
                            IF status = "completed" /\ @ = None THEN now
                            ELSE IF status # "completed" THEN None ELSE @]]
       ELSE [exc |-> "ValueError", listed |-> valid_statuses, task |-> task]

\* a direct call task.set_status(status) on a stored task
Task_set_status(pk, status) ==
  LET r == set_status(tasks[pk], status) IN
  /\ pk \in DOMAIN tasks
  /\ tasks' = [tasks EXCEPT ![pk] = r.task]
  /\ resp' = Response("set_status", "", pk, "status" :> status, IF r.exc = "" THEN 200 ELSE 500,
                      {tasks[pk]}, {}, None, r.listed, r.exc)
  /\ UNCHANGED <<next_id, today>>

\* Task.set_priority: takes choice[0] of every key of PRIORITY_CHOICES.
\* Returns the exception raised ("" for none), the values the error message
\* lists, and the instance as saved.
set_priority(task, priority) ==
  LET valid_priorities == {FirstChar[k] : k \in PRIORITY_CHOICES} IN
  IF priority \in valid_priorities
  THEN [exc |-> "", listed |-> {}, task |-> [task EXCEPT !.priority = priority]]
  ELSE [exc |-> "ValueError", listed |-> valid_priorities, task |-> task]

\* a direct call task.set_priority(priority) on a stored task
Task_set_priority(pk, priority) ==
  LET r == set_priority(tasks[pk], priority) IN
  /\ pk \in DOMAIN tasks
  /\ tasks' = [tasks EXCEPT ![pk] = r.task]
  /\ resp' = Response("set_priority", "", pk, "priority" :> priority,
                      IF r.exc = "" THEN 200 ELSE 500,
                      {tasks[pk]}, {}, None, r.listed, r.exc)
  /\ UNCHANGED <<next_id, today>>

\* ---- inputs of the lifecycle specification ----
\* every status / due_date combination and one payload per way of failing
\* validation
LifecyclePayloads ==
  {s @@ du : s \in Opt("status", STATUS_CHOICE), du \in Opt("due_date", Days \cup {None})}

InvalidPayloads ==
  {"title" :> t : t \in {<<>>, <<" ">>}}
  \cup {"status" :> "bogus", "priority" :> "bogus"}

CreatePayloads ==
  {p @@ ("title" :> <<" ", "a", " ">>) @@ ("description" :> "d") :
     p \in LifecyclePayloads \cup InvalidPayloads}
  \cup {"title" :> <<"a">>, "description" :> "d"}

\* PATCH payloads: each status alone, each due date alone, both together
\* for the two ways of leaving and entering completed, and the invalid ones
UpdatePayloads ==
  Opt("status", STATUS_CHOICE) \cup Opt("due_date", Days \cup {None})
  \cup {("status" :> "completed") @@ ("due_date" :> 0),
        ("status" :> "in_process") @@ ("due_date" :> None)}
  \cup InvalidPayloads \cup {"title" :> <<" ", "a", " ">>}

LifecycleUsers == {"alice"}

\* ---- inputs of the ownership specification ----
\* payloads with and without a forged owner key, and an invalid one
OwnerPayloads ==
  {o @@ du : o \in Opt("user", Users), du \in Opt("due_date", {0})}
  \cup {"status" :> "bogus"}

OwnerCreatePayloads ==
  {p @@ ("title" :> <<"a">>) @@ ("description" :> "d") : p \in OwnerPayloads}

OwnerUpdatePayloads ==
  OwnerPayloads \cup {"due_date" :> MaxDay, "status" :> "completed"}

ListParams ==
  {s @@ p : s \in Opt("status", STATUS_CHOICE), p \in Opt("priority", {"medium"})}

NextOf(callers, create_payloads, update_payloads) ==
  \/ \E u \in callers, data \in create_payloads :
       TaskViewSet_create(u, data) /\ UNCHANGED account
  \/ \E u \in callers, params \in ListParams :
       TaskViewSet_list(u, params) /\ UNCHANGED account
  \/ \E u \in callers, pk \in Pks :
       TaskViewSet_retrieve(u, pk) /\ UNCHANGED account
  \/ \E u \in callers, pk \in Pks, data \in update_payloads :
       TaskViewSet_partial_update(u, pk, data) /\ UNCHANGED account
  \/ \E u \in callers, pk \in Pks :
       TaskViewSet_destroy(u, pk) /\ UNCHANGED account
  \/ \E u \in callers, pk \in Pks :
       TaskViewSet_toggle_complete(u, pk) /\ UNCHANGED account
  \/ \E u \in callers : TaskViewSet_overdue(u) /\ UNCHANGED account
  \/ \E u \in callers : TaskViewSet_today(u) /\ UNCHANGED account
  \/ \E pk \in Pks : TaskAdmin_mark_as_completed(pk) /\ UNCHANGED account
  \/ \E pk \in Pks : TaskAdmin_mark_as_pending(pk) /\ UNCHANGED account
  \/ \E pk \in Pks, s \in StatusInputs :
       Task_set_status(pk, s) /\ UNCHANGED account
  \/ Tick /\ UNCHANGED account

\* two users working on their own and on each other's tasks
Next == NextOf(Users, OwnerCreatePayloads, OwnerUpdatePayloads)

Spec == Init /\ [][Next]_vars

\* one user driving a task through every status and due date
LifecycleNext == NextOf(LifecycleUsers, CreatePayloads, UpdatePayloads)

LifecycleSpec == Init /\ [][LifecycleNext]_vars

\* ---- inputs of the priority specification ----
PriorityInputs == PRIORITY_CHOICES \cup {"l", "bogus"}

PriorityCreatePayloads ==
  {p @@ ("title" :> <<"a">>) @@ ("description" :> "d") :
     p \in Opt("priority", {"low", "high", "bogus"})}

PriorityUpdatePayloads ==
  Opt("priority", {"low", "high", "bogus"}) \cup {"status" :> "completed"}

\* one user setting priorities through the API and through set_priority
PriorityNext ==
  \/ NextOf(LifecycleUsers, PriorityCreatePayloads, PriorityUpdatePayloads)
  \/ \E pk \in Pks, p \in PriorityInputs :
       Task_set_priority(pk, p) /\ UNCHANGED account

PrioritySpec == Init /\ [][PriorityNext]_vars

\* ---- PATCH /api/tasks/{id}/ one database operation at a time ----
\* Requests run in parallel, one per client connection; every save() is a
\* record write of its own (no transaction spans a request).  An entry of
\* inflight is a request between two of its database operations: the
\* instance it holds in memory, the instance as it loaded it (before), the
\* validated data left to apply and the number of save() calls made so far.
Clients == {"c1", "c2"}

\* get_object() and is_valid(): the instance is loaded and the payload checked
TaskViewSet_partial_update_load(c, user, pk, data) ==
  LET code == get_object(user, "partial_update", pk)
      errors == UpdateErrors(data) IN
  /\ c \notin DOMAIN inflight
  /\ IF code # 200
     THEN /\ resp' = Response("partial_update", user, pk, data, code, {}, {}, None, {}, "")
          /\ UNCHANGED inflight
     ELSE IF errors # {}
     THEN /\ resp' = Response("partial_update", user, pk, data, 400, {}, {},
                              None, errors, "")
          /\ UNCHANGED inflight
     ELSE /\ inflight' = (c :> [op |-> "partial_update", user |-> user, pk |-> pk,
                                data |-> data, before |-> tasks[pk],
                                instance |-> tasks[pk],
                                validated_data |-> Validated(data),
                                saves |-> 0]) @@ inflight
          /\ UNCHANGED resp
  /\ UNCHANGED <<tasks, next_id, today, users, next_uid, tokens, next_key>>

\* update() is about to call mark_complete() or mark_incomplete()
CrossesCompleted(r) ==
  LET new_status == Get(r.validated_data, "status", r.instance.status) IN
  \/ new_status = "completed" /\ r.instance.status # "completed"
  \/ new_status # "completed" /\ r.instance.status = "completed"

\* update(): instance.mark_complete() / instance.mark_incomplete(), each of
\* which saves the instance, then validated_data.pop('status')
TaskUpdateSerializer_update_mark(c) ==
  /\ c \in DOMAIN inflight
  /\ inflight[c].op = "partial_update"
  /\ CrossesCompleted(inflight[c])
  /\ LET r == inflight[c]
         marked == IF r.validated_data.status = "completed"
                   THEN mark_complete(r.instance)
                   ELSE mark_incomplete(r.instance) IN
     /\ tasks' = [tasks EXCEPT ![r.pk] = marked]
     /\ inflight' = [inflight EXCEPT ![c].instance = marked,
                                     ![c].validated_data = Pop(@, "status"),
                                     ![c].saves = @ + 1]
  /\ UNCHANGED <<next_id, today, resp, users, next_uid, tokens, next_key>>

\* update(): the setattr loop over the remaining fields, instance.save(), and
\* the response of the view
TaskUpdateSerializer_update_save(c) ==
  /\ c \in DOMAIN inflight
  /\ inflight[c].op = "partial_update"
  /\ ~CrossesCompleted(inflight[c])
  /\ LET r == inflight[c]
         updated_task == SetAttrs(r.instance, r.validated_data) IN
     /\ tasks' = [tasks EXCEPT ![r.pk] = updated_task]
     /\ resp' = Response("partial_update", r.user, r.pk, r.data, 200, {r.before},
                         {TaskSerializer(r.pk, updated_task)}, None, {}, "")
  /\ inflight' = [x \in (DOMAIN inflight) \ {c} |-> inflight[x]]
  /\ UNCHANGED <<next_id, today, users, next_uid, tokens, next_key>>

\* ---- inputs of the interleaving specification ----
AtomicCreatePayloads == {("title" :> <<"a">>) @@ ("description" :> "d")}

AtomicUpdatePayloads ==
  {"status" :> "completed", "status" :> "in_process", "due_date" :> 0,
   ("status" :> "completed") @@ ("due_date" :> 0),
   ("status" :> "pending") @@ ("due_date" :> None),
   "status" :> "bogus"}

\* readers and writers of one user's tasks, with PATCH requests in flight
AtomicNext ==
  \/ \E u \in LifecycleUsers, data \in AtomicCreatePayloads :
       TaskViewSet_create(u, data) /\ UNCHANGED account
  \/ \E u \in LifecycleUsers, pk \in Pks :
       TaskViewSet_retrieve(u, pk) /\ UNCHANGED account
  \/ \E u \in LifecycleUsers, pk \in Pks :
       TaskViewSet_toggle_complete(u, pk) /\ UNCHANGED account
  \/ \E pk \in Pks : TaskAdmin_mark_as_completed(pk) /\ UNCHANGED account
  \/ \E pk \in Pks : TaskAdmin_mark_as_pending(pk) /\ UNCHANGED account
  \/ \E c \in Clients, u \in LifecycleUsers, pk \in Pks, data \in AtomicUpdatePayloads :
       TaskViewSet_partial_update_load(c, u, pk, data)
  \/ \E c \in Clients : TaskUpdateSerializer_update_mark(c)
  \/ \E c \in Clients : TaskUpdateSerializer_update_save(c)

AtomicSpec == Init /\ [][AtomicNext]_vars

\* ---- User model (user_account/models.py) ----
\* A user instance is a record whose DOMAIN is the set of attributes the
\* object has.  A row loaded from the users table has the columns of the
\* model; save() writes the columns and nothing else.  Strings that can be
\* NULL are sequences: <<>> is None, <<"">> the empty string.  A username,
\* a password and a name are sequences of characters.
UserModelFields ==
  {"username", "email", "first_name", "last_name", "password", "is_active"}
Model_save(instance) == [f \in UserModelFields |-> instance[f]]

UpperChars == {"A", "P"}
LowerChars == {"a", "b", "d", "o", "r", "s", "w"}
DigitChars == {"0", "1"}
isalnum(s) ==
  s # <<>> /\ \A i \in 1..Len(s) : s[i] \in UpperChars \cup LowerChars \cup DigitChars
replace_underscore(s) == SelectSeq(s, LAMBDA ch : ch # "_")

\* days of the username cooldown
CooldownDays == 14

\* reading an attribute the instance does not have raises AttributeError;
\* (now - last).days / 7 >= 2 holds exactly when days >= 2 * 7
can_change_username(user) ==
  IF ~Has(user, "last_username_change")
  THEN [exc |-> "AttributeError", value |-> FALSE]
  ELSE IF user.last_username_change = None
  THEN [exc |-> "", value |-> TRUE]
  ELSE [exc |-> "", value |-> (now - user.last_username_change) >= 2 * 7]

days_until_username_change(user) ==
  LET can == can_change_username(user) IN
  IF can.exc # "" THEN [exc |-> can.exc, value |-> 0]
  ELSE IF can.value THEN [exc |-> "", value |-> 0]
  ELSE [exc |-> "", value |-> CooldownDays - (now - user.last_username_change)]

\* the UNIQUE constraints of the users table, checked by the database at
\* every INSERT and UPDATE: username, and email where it is not NULL
IntegrityError(row, pk) ==
  \E o \in (DOMAIN users) \ {pk} :
    \/ users[o].username = row.username
    \/ row.email # <<>> /\ users[o].email = row.email

\* ---- account serializers (user_account/serializers.py) ----
\* the username field of a ModelSerializer on User: not blank, and made of
\* word characters and . @ + -
UsernameFieldValid(value) ==
  /\ value # <<>>
  /\ \A i \in 1..Len(value) :
       value[i] \in UpperChars \cup LowerChars \cup DigitChars \cup {"_", ".", "@", "+", "-"}

username_exists(value, exclude_pk) ==
  \E o \in (DOMAIN users) \ {exclude_pk} : users[o].username = value
email_exists(value, exclude_pk) ==
  \E o \in (DOMAIN users) \ {exclude_pk} : users[o].email = value
\* truth value of an optional string
Truthy(value) == value # <<>> /\ value # <<"">>

validate_password(value) ==
  /\ Len(value) >= 8
  /\ \E i \in 1..Len(value) : value[i] \in UpperChars
  /\ \E i \in 1..Len(value) : value[i] \in LowerChars
  /\ \E i \in 1..Len(value) : value[i] \in DigitChars

\* the fields in error of a registration payload; validate() compares the
\* passwords only when every field passed
RegistrationErrors(data) ==
  LET field_errors ==
        {f \in {"username", "password", "password_confirm", "first_name", "last_name"} :
           ~Has(data, f) \/ data[f] = <<>>}
        \cup {f \in {"username"} :
                Has(data, f)
                /\ (\/ ~UsernameFieldValid(data[f])
                    \/ username_exists(data[f], 0)
                    \/ ~isalnum(replace_underscore(data[f])))}
        \cup {f \in {"password"} : Has(data, f) /\ ~validate_password(data[f])}
        \cup {f \in {"email"} :
                Has(data, f) /\ Truthy(data[f]) /\ email_exists(data[f], 0)} IN
  IF field_errors # {} THEN field_errors
  ELSE IF data.password # data.password_confirm THEN {"password_confirm"}
  ELSE {}

\* BaseUserManager.normalize_email: None becomes the empty string
normalize_email(email) == IF email = <<>> THEN <<"">> ELSE email

UserRegistrationSerializer_create(validated_data) ==
  [username |-> validated_data.username,
   password |-> validated_data.password,
   first_name |-> validated_data.first_name,
   last_name |-> validated_data.last_name,
   email |-> normalize_email(Get(validated_data, "email", <<>>)),
   is_active |-> TRUE]

\* django.contrib.auth.authenticate: the user of that name when the password
\* matches and the account is active, 0 for None
authenticate(username, password) ==
  IF \E o \in DOMAIN users :
       users[o].username = username /\ users[o].password = password /\ users[o].is_active
  THEN CHOOSE o \in DOMAIN users : users[o].username = username
  ELSE 0

LoginErrors(data) ==
  LET missing == {f \in {"username", "password"} : ~Has(data, f) \/ data[f] = <<>>} IN
  IF missing # {} THEN missing
  ELSE IF ~username_exists(data.username, 0) THEN {"username"}
  ELSE IF authenticate(data.username, data.password) = 0 THEN {"password"}
  ELSE IF ~users[authenticate(data.username, data.password)].is_active THEN {"username"}
  ELSE {}

\* UserProfileSerializer.validate_username on a value the field accepted:
\* the exception raised, whether the value is refused, the days left reported
UserProfileSerializer_validate_username(user, pk, value) ==
  IF user.username = value
  THEN [exc |-> "", error |-> FALSE, days_left |-> None]
  ELSE LET can == can_change_username(user) IN
       IF can.exc # ""
       THEN [exc |-> can.exc, error |-> FALSE, days_left |-> None]
       ELSE IF ~can.value
       THEN [exc |-> "", error |-> TRUE,
             days_left |-> days_until_username_change(user).value]
       ELSE IF username_exists(value, pk)
       THEN [exc |-> "", error |-> TRUE, days_left |-> None]
       ELSE IF ~isalnum(replace_underscore(value))
       THEN [exc |-> "", error |-> TRUE, days_left |-> None]
       ELSE [exc |-> "", error |-> FALSE, days_left |-> None]

UserProfileSerializer_validate_email(user, pk, value) ==
  IF user.email = value THEN FALSE
  ELSE Truthy(value) /\ email_exists(value, pk)

\* is_valid() of a partial profile update: fields are taken in the order
\* username, email, first_name, last_name; a field the framework refuses
\* (blank, bad characters, UniqueValidator) never reaches validate_<field>
ProfileValidation(user, pk, data) ==
  LET username_field_error ==
        Has(data, "username")
        /\ (~UsernameFieldValid(data.username) \/ username_exists(data.username, pk))
      username_check ==
        IF Has(data, "username") /\ ~username_field_error
        THEN UserProfileSerializer_validate_username(user, pk, data.username)
        ELSE [exc |-> "", error |-> FALSE, days_left |-> None]
      email_error ==
        Has(data, "email")
        /\ (\/ Truthy(data.email) /\ email_exists(data.email, pk)
            \/ UserProfileSerializer_validate_email(user, pk, data.email))
      blank == {f \in {"first_name", "last_name"} : Has(data, f) /\ data[f] = <<>>} IN
  [exc |-> username_check.exc,
   days_left |-> username_check.days_left,
   errors |-> {f \in {"username"} : username_field_error \/ username_check.error}
              \cup {f \in {"email"} : email_error} \cup blank]

\* update(): stamps the instance when the username changes, assigns the four
\* fields; the caller saves
UserProfileSerializer_update(instance, validated_data) ==
  LET new_username == Get(validated_data, "username", instance.username)
      stamped == IF new_username # instance.username
                 THEN ("last_username_change" :> now) @@ instance
                 ELSE instance IN
  [f \in DOMAIN stamped |->
     IF f \in {"username", "email", "first_name", "last_name"} /\ Has(validated_data, f)
     THEN validated_data[f] ELSE stamped[f]]

\* serializer.data: can_change_username comes before
\* days_until_username_change in the field list
UserProfileSerializer_data(pk, obj) ==
  LET can == can_change_username(obj)
      days == days_until_username_change(obj) IN
  IF can.exc # "" THEN [exc |-> can.exc, data |-> {}]
  ELSE [exc |-> "",
        data |-> {[id |-> pk, username |-> obj.username, email |-> obj.email,
                   first_name |-> obj.first_name, last_name |-> obj.last_name,
                   can_change_username |-> can.value,
                   days_until_username_change |-> days.value]}]

\* ---- account views (user_account/views.py) ----
MaxKeys == 2

\* the user a presented token key belongs to, 0 when the key is unknown
authenticate_credentials(key) == IF key \in DOMAIN tokens THEN tokens[key] ELSE 0

\* Token.objects.get_or_create(user=user): the token table and the key
Token_get_or_create(pk) ==
  IF \E k \in DOMAIN tokens : tokens[k] = pk
  THEN [key |-> CHOOSE k \in DOMAIN tokens : tokens[k] = pk,
        tokens |-> tokens, next_key |-> next_key]
  ELSE [key |-> next_key, tokens |-> (next_key :> pk) @@ tokens,
        next_key |-> next_key + 1]

\* The last account request and its response: the key presented and the
\* user it authenticated (0 for none), the payload, the status code, the
\* user as loaded (before) and as returned, the token key returned, the
\* fields in error, the days left a cooldown error reports, the exception
\* raised and the method that raised it.
AuthResponse(op, key, pk, data, code, before, user, token, errors, days_left, exc, raised_in) ==
  [op |-> op, caller |-> "", pk |-> pk, data |-> data, code |-> code,
   before |-> before, tasks |-> {}, count |-> None, errors |-> errors,
   exc |-> exc, chain |-> <<>>, key |-> key, user |-> user, token |-> token,
   days_left |-> days_left, raised_in |-> raised_in]

\* POST /api/auth/register/
RegisterView_post(data) ==
  LET errors == RegistrationErrors(data) IN
  IF errors # {}
  THEN /\ resp' = AuthResponse("register", 0, 0, data, 400, {}, {}, 0, errors,
                               None, "", "")
       /\ UNCHANGED <<users, next_uid, tokens, next_key>>
  ELSE LET user == UserRegistrationSerializer_create(data) IN
       IF IntegrityError(user, 0)
       THEN /\ resp' = AuthResponse("register", 0, 0, data, 500, {}, {}, 0, {},
                                    None, "IntegrityError", "create_user")
            /\ UNCHANGED <<users, next_uid, tokens, next_key>>
       ELSE /\ next_key <= MaxKeys
            /\ users' = (next_uid :> user) @@ users
            /\ next_uid' = next_uid + 1
            /\ tokens' = (next_key :> next_uid) @@ tokens
            /\ next_key' = next_key + 1
            /\ resp' = AuthResponse("register", 0, next_uid, data, 201, {},
                                    {user}, next_key, {}, None, "", "")

\* POST /api/auth/login/
LoginView_post(data) ==
  LET errors == LoginErrors(data) IN
  IF errors # {}
  THEN /\ resp' = AuthResponse("login", 0, 0, data, 400, {}, {}, 0, errors,
                               None, "", "")
       /\ UNCHANGED <<users, next_uid, tokens, next_key>>
  ELSE LET user == authenticate(data.username, data.password)
           token == Token_get_or_create(user) IN
       /\ token.next_key <= MaxKeys + 1
       /\ tokens' = token.tokens
       /\ next_key' = token.next_key
       /\ resp' = AuthResponse("login", 0, user, data, 200, {}, {users[user]},
                               token.key, {}, None, "", "")
       /\ UNCHANGED <<users, next_uid>>

\* variant: logout ends the session and keeps the token
LogoutView_post_keep_token(key) ==
  LET user == authenticate_credentials(key) IN
  /\ resp' = AuthResponse("logout", key, user, <<>>, IF user = 0 THEN 401 ELSE 200,
                          {}, {}, 0, {}, None, "", "")
  /\ UNCHANGED <<users, next_uid, tokens, next_key>>

\* POST /api/auth/logout/
LogoutView_post(key) ==
  LET user == authenticate_credentials(key) IN
  IF user = 0
  THEN /\ resp' = AuthResponse("logout", key, 0, <<>>, 401, {}, {}, 0, {}, None, "", "")
       /\ UNCHANGED <<users, next_uid, tokens, next_key>>
  ELSE IF ~\E k \in DOMAIN tokens : tokens[k] = user
  THEN /\ resp' = AuthResponse("logout", key, user, <<>>, 400, {}, {}, 0, {}, None,
                               "RelatedObjectDoesNotExist", "auth_token")
       /\ UNCHANGED <<users, next_uid, tokens, next_key>>
  ELSE /\ tokens' = [k \in {x \in DOMAIN tokens : tokens[x] # user} |-> tokens[k]]
       /\ resp' = AuthResponse("logout", key, user, <<>>, 200, {}, {}, 0, {}, None, "", "")
       /\ UNCHANGED <<users, next_uid, next_key>>

\* GET /api/auth/profile/
UserProfileView_get(key) ==
  LET user == authenticate_credentials(key) IN
  /\ resp' = IF user = 0
             THEN AuthResponse("profile_get", key, 0, <<>>, 401, {}, {}, 0, {}, None, "", "")
             ELSE LET r == UserProfileSerializer_data(user, users[user]) IN
                  IF r.exc # ""
                  THEN AuthResponse("profile_get", key, user, <<>>, 500, {users[user]},
                                    {}, 0, {}, None, r.exc, "can_change_username")
                  ELSE AuthResponse("profile_get", key, user, <<>>, 200, {users[user]},
                                    r.data, 0, {}, None, "", "")
  /\ UNCHANGED <<users, next_uid, tokens, next_key>>

\* PATCH /api/auth/profile/
UserProfileView_patch(key, data) ==
  LET user == authenticate_credentials(key) IN
  IF user = 0
  THEN /\ resp' = AuthResponse("profile_patch", key, 0, data, 401, {}, {}, 0, {}, None, "", "")
       /\ UNCHANGED <<users, next_uid, tokens, next_key>>
  ELSE
  LET v == ProfileValidation(users[user], user, data) IN
  IF v.exc # ""
  THEN /\ resp' = AuthResponse("profile_patch", key, user, data, 500, {users[user]}, {},
                               0, {}, None, v.exc, "can_change_username")
       /\ UNCHANGED <<users, next_uid, tokens, next_key>>
  ELSE IF v.errors # {}
  THEN /\ resp' = AuthResponse("profile_patch", key, user, data, 400, {users[user]}, {},
                               0, v.errors, v.days_left, "", "")
       /\ UNCHANGED <<users, next_uid, tokens, next_key>>
  ELSE
  LET instance == UserProfileSerializer_update(users[user], data) IN
  IF IntegrityError(instance, user)
  THEN /\ resp' = AuthResponse("profile_patch", key, user, data, 500, {users[user]}, {},
                               0, {}, None, "IntegrityError", "save")
       /\ UNCHANGED <<users, next_uid, tokens, next_key>>
  ELSE LET r == UserProfileSerializer_data(user, instance) IN
       /\ users' = [users EXCEPT ![user] = Model_save(instance)]
       /\ resp' = IF r.exc # ""
                  THEN AuthResponse("profile_patch", key, user, data, 500, {users[user]},
                                    {}, 0, {}, None, r.exc, "can_change_username")
                  ELSE AuthResponse("profile_patch", key, user, data, 200, {users[user]},
                                    r.data, 0, {}, None, "", "")
       /\ UNCHANGED <<next_uid, tokens, next_key>>

\* ---- inputs of the account specification ----
StrongPassword == <<"P", "a", "s", "s", "w", "0", "r", "d">>
NoDigitPassword == <<"P", "a", "s", "s", "w", "o", "r", "d">>
ShortPassword == <<"P", "a", "0">>
Usernames == {<<"a">>, <<"b">>}
Registration(username, password, confirm) ==
  [username |-> username, password |-> password, password_confirm |-> confirm,
   first_name |-> <<"F">>, last_name |-> <<"L">>]

\* well-formed registrations with and without an email, and one payload per
\* way of failing validation
RegisterPayloads ==
  {Registration(u, StrongPassword, StrongPassword) @@ e :
     u \in Usernames, e \in Opt("email", {<<"e1@x">>})}
  \cup {Registration(u, StrongPassword, StrongPassword) : u \in {<<"_">>, <<"!">>, <<>>}}
  \cup {Registration(<<"b">>, p, p) : p \in {NoDigitPassword, ShortPassword}}
  \cup {Registration(<<"b">>, StrongPassword, NoDigitPassword),
        [Registration(<<"b">>, StrongPassword, StrongPassword) EXCEPT !.first_name = <<>>]}

LoginPayloads ==
  {[username |-> u, password |-> p] :
     u \in Usernames, p \in {StrongPassword, NoDigitPassword}}

\* profile updates: each field alone, a first name next to a username or an
\* email, and a blank first name alone and next to a valid email
ProfilePayloads ==
  {"username" :> u : u \in Usernames \cup {<<"_">>}}
  \cup {"email" :> e : e \in {<<"e1@x">>, <<"e2@x">>, <<"">>, <<>>}}
  \cup {"first_name" :> n : n \in {<<"G">>, <<>>}}
  \cup {("first_name" :> <<"G">>) @@ ("username" :> <<"a">>),
        ("first_name" :> <<>>) @@ ("email" :> <<"e2@x">>)}

PresentedKeys == 1..MaxKeys

\* what the account views leave alone
task_side == <<tasks, next_id, today, inflight>>

\* users registering, logging in and out and reading their profiles
SessionNext ==
  \/ \E data \in RegisterPayloads : RegisterView_post(data) /\ UNCHANGED task_side
  \/ \E data \in LoginPayloads : LoginView_post(data) /\ UNCHANGED task_side
  \/ \E key \in PresentedKeys : LogoutView_post(key) /\ UNCHANGED task_side
  \/ \E key \in PresentedKeys : UserProfileView_get(key) /\ UNCHANGED task_side

SessionSpec == Init /\ [][SessionNext]_vars

\* registered users reading and updating their profiles as days pass
ProfileNext ==
  \/ \E data \in RegisterPayloads : RegisterView_post(data) /\ UNCHANGED task_side
  \/ \E key \in PresentedKeys : UserProfileView_get(key) /\ UNCHANGED task_side
  \/ \E key \in PresentedKeys, data \in ProfilePayloads :
       UserProfileView_patch(key, data) /\ UNCHANGED task_side
  \/ Tick /\ UNCHANGED account

ProfileSpec == Init /\ [][ProfileNext]_vars

\* ---- POST /api/auth/register/ one database operation at a time ----
\* serializer.is_valid(): the uniqueness checks read the users table
RegisterView_post_is_valid(c, data) ==
  LET errors == RegistrationErrors(data) IN
  /\ c \notin DOMAIN inflight
  /\ IF errors # {}
     THEN /\ resp' = AuthResponse("register", 0, 0, data, 400, {}, {}, 0, errors,
                                  None, "", "")
          /\ UNCHANGED inflight
     ELSE /\ inflight' = (c :> [op |-> "register", data |-> data]) @@ inflight
          /\ UNCHANGED resp
  /\ UNCHANGED <<tasks, next_id, today, users, next_uid, tokens, next_key>>

\* serializer.save(): create_user inserts the row, then the token is created
RegisterView_post_save(c) ==
  /\ c \in DOMAIN inflight
  /\ inflight[c].op = "register"
  /\ LET data == inflight[c].data
         user == UserRegistrationSerializer_create(data) IN
     IF IntegrityError(user, 0)
     THEN /\ resp' = AuthResponse("register", 0, 0, data, 500, {}, {}, 0, {},
                                  None, "IntegrityError", "create_user")
          /\ UNCHANGED <<users, next_uid, tokens, next_key>>
     ELSE /\ next_key <= MaxKeys
          /\ users' = (next_uid :> user) @@ users
          /\ next_uid' = next_uid + 1
          /\ tokens' = (next_key :> next_uid) @@ tokens
          /\ next_key' = next_key + 1
          /\ resp' = AuthResponse("register", 0, next_uid, data, 201, {},
                                  {user}, next_key, {}, None, "", "")
  /\ inflight' = [x \in (DOMAIN inflight) \ {c} |-> inflight[x]]
  /\ UNCHANGED <<tasks, next_id, today>>

\* ---- inputs of the concurrent registration specification ----
RaceRegisterPayloads ==
  {Registration(u, StrongPassword, StrongPassword) @@ e :
     u \in Usernames, e \in Opt("email", {<<"e1@x">>})}
  \cup {Registration(<<"_">>, StrongPassword, StrongPassword)}

RaceProfilePayloads ==
  {"username" :> u : u \in Usernames} \cup {"email" :> e : e \in {<<"e1@x">>, <<"">>}}

\* registrations running in parallel, next to profile updates
RaceNext ==
  \/ \E c \in Clients, data \in RaceRegisterPayloads : RegisterView_post_is_valid(c, data)
  \/ \E c \in Clients : RegisterView_post_save(c)
  \/ \E key \in PresentedKeys, data \in RaceProfilePayloads :
       UserProfileView_patch(key, data) /\ UNCHANGED task_side

RaceSpec == Init /\ [][RaceNext]_vars

\* ---- inputs of the validation specification ----
ValidationCreatePayloads ==
  {("title" :> <<"a">>) @@ ("description" :> "d"),
   ("title" :> <<" ">>) @@ ("description" :> "d") @@ ("due_date" :> 0),
   ("title" :> <<"a">>) @@ ("description" :> "d") @@ ("priority" :> "bogus")}

ValidationUpdatePayloads ==
  {"due_date" :> 0, "status" :> "completed",
   ("status" :> "bogus") @@ ("due_date" :> 0),
   ("title" :> <<" ">>) @@ ("status" :> "completed"),
   ("priority" :> "bogus") @@ ("title" :> <<"b">>)}

ValidationRegisterPayloads ==
  {Registration(<<"a">>, StrongPassword, StrongPassword) @@ ("email" :> <<"e1@x">>),
   Registration(<<"b">>, StrongPassword, StrongPassword) @@ ("email" :> <<"e1@x">>),
   Registration(<<"b">>, StrongPassword, NoDigitPassword),
   Registration(<<"a">>, ShortPassword, ShortPassword)}

ValidationProfilePayloads ==
  {"first_name" :> <<"G">>, "username" :> <<"_">>,
   ("first_name" :> <<>>) @@ ("email" :> <<"e2@x">>),
   ("first_name" :> <<"G">>) @@ ("email" :> <<"e1@x">>)}

\* the four operations that validate a payload before they write
ValidationNext ==
  \/ \E u \in LifecycleUsers, data \in ValidationCreatePayloads :
       TaskViewSet_create(u, data) /\ UNCHANGED account
  \/ \E u \in LifecycleUsers, pk \in Pks, data \in ValidationUpdatePayloads :
       TaskViewSet_partial_update(u, pk, data) /\ UNCHANGED account
  \/ \E data \in ValidationRegisterPayloads :
       RegisterView_post(data) /\ UNCHANGED task_side
  \/ \E key \in PresentedKeys, data \in ValidationProfilePayloads :
       UserProfileView_patch(key, data) /\ UNCHANGED task_side

ValidationSpec == Init /\ [][ValidationNext]_vars

\* ---------------------------------------------------------------------
\* Properties
\* ---------------------------------------------------------------------
Before == CHOOSE b \in resp.before : TRUE
Overdue(due_date, status) ==
  due_date # None /\ due_date < today /\ status # "completed"
SingleTaskOps == {"retrieve", "partial_update", "destroy", "toggle_complete"}
ListOps == {"list", "overdue", "today"}

\* C1: every stored task has completed_at set if and only if its status is
\* completed, after any sequence of operations and right after creation.
C1_CompletedAtIffCompleted ==
  \A id \in DOMAIN tasks :
    (tasks[id].completed_at # None) <=> (tasks[id].status = "completed")

\* C2: a retrieve, PATCH, delete or toggle issued by a user on a task owned by
\* another user ends in 403 or 404, returns no task data and leaves the task
\* stored exactly as it was.
C2_NonOwnerDenied ==
  [][\A id \in DOMAIN tasks :
       (resp'.op \in SingleTaskOps /\ resp'.pk = id
          /\ resp'.caller # tasks[id].user)
       => /\ resp'.code \in {403, 404}
          /\ resp'.tasks = {}
          /\ id \in DOMAIN tasks'
          /\ tasks'[id] = tasks[id]]_vars

\* a non-owner's single-task request on an existing task was just refused
C2_Witness ==
  /\ resp.op \in SingleTaskOps
  /\ resp.pk \in DOMAIN tasks
  /\ tasks[resp.pk].user # resp.caller
  /\ resp.code \in {403, 404}

\* C3: every task in a list, overdue or today response is owned by the caller.
C3_ListsOwnerScoped ==
  resp.op \in ListOps => \A t \in resp.tasks : t.owner = resp.caller

\* a list-type request was answered while another user's task is stored
C3_Witness ==
  /\ resp.op \in ListOps
  /\ \E id \in DOMAIN tasks : tasks[id].user # resp.caller

\* C4: a created task is owned by the caller whatever the payload says, and
\* no later step changes the owner of a stored task.
C4_OwnerFixed ==
  [][/\ (resp'.op = "create" /\ resp'.code = 201)
          => (resp'.pk \in DOMAIN tasks' /\ tasks'[resp'.pk].user = resp'.caller)
     /\ \A id \in (DOMAIN tasks) \cap (DOMAIN tasks') :
          tasks'[id].user = tasks[id].user]_vars

\* a create or PATCH carrying another user as owner has just succeeded
C4_Witness ==
  /\ resp.op \in {"create", "partial_update"}
  /\ resp.code \in {200, 201}
  /\ Has(resp.data, "user")
  /\ resp.data.user # resp.caller

\* C5: a successful toggle of a completed task leaves it pending with
\* completed_at cleared; a toggle of a pending or in_process task leaves it
\* completed with completed_at set to the current time.
C5_ToggleComplete ==
  (resp.op = "toggle_complete" /\ resp.code = 200) =>
    /\ Before.status = "completed" =>
         (tasks[resp.pk].status = "pending" /\ tasks[resp.pk].completed_at = None)
    /\ Before.status \in {"pending", "in_process"} =>
         (tasks[resp.pk].status = "completed" /\ tasks[resp.pk].completed_at = now)

\* an in_process task has just been toggled
C5_Witness ==
  /\ resp.op = "toggle_complete"
  /\ resp.code = 200
  /\ Before.status = "in_process"

\* C6 as stated: after two toggles in succession the task is pending only if
\* it started at completed, and completed if it started at pending or
\* in_process.
C6_TwiceAsStated ==
  (resp.op = "toggle_complete" /\ resp.code = 200 /\ Len(resp.chain) = 2) =>
    /\ tasks[resp.pk].status = "pending" => resp.chain[1] = "completed"
    /\ resp.chain[1] \in {"pending", "in_process"} =>
         tasks[resp.pk].status = "completed"

\* C6 amended: after two toggles in succession the task is completed if it
\* started at completed, and pending if it started at pending or in_process.
C6_TwiceToggle ==
  (resp.op = "toggle_complete" /\ resp.code = 200 /\ Len(resp.chain) = 2) =>
    /\ resp.chain[1] = "completed" => tasks[resp.pk].status = "completed"
    /\ resp.chain[1] \in {"pending", "in_process"} =>
         tasks[resp.pk].status = "pending"

\* a task that started in_process has just been toggled twice in succession
C6_Witness ==
  /\ resp.op = "toggle_complete"
  /\ resp.code = 200
  /\ Len(resp.chain) = 2
  /\ resp.chain[1] = "in_process"

\* C7: is_overdue holds exactly when the due date is set, lies before today
\* and the status is not completed, for every stored task and in every task
\* representation returned; a task returned as completed is never overdue.
C7_IsOverdue ==
  /\ \A id \in DOMAIN tasks :
       is_overdue(tasks[id]) <=> Overdue(tasks[id].due_date, tasks[id].status)
  /\ \A t \in resp.tasks :
       /\ t.is_overdue <=> Overdue(t.due_date, t.status)
       /\ t.status = "completed" => ~t.is_overdue

\* a task whose due date has passed has just been completed
C7_Witness ==
  /\ resp.op \in {"toggle_complete", "partial_update"}
  /\ resp.code = 200
  /\ Before.status # "completed"
  /\ \E t \in resp.tasks :
       t.status = "completed" /\ t.due_date # None /\ t.due_date < today

\* C8: the overdue response lists exactly the caller's tasks whose is_overdue
\* is true, and its count is the number of tasks listed.
C8_OverdueExact ==
  resp.op = "overdue" =>
    /\ {t.id : t \in resp.tasks} =
         {id \in DOMAIN tasks :
            tasks[id].user = resp.caller /\ is_overdue(tasks[id])}
    /\ resp.count = Cardinality(resp.tasks)

\* C9: set_status with an allowed value succeeds, stores the value, stamps an
\* unset completed_at when the value is completed (keeping one already set),
\* and clears completed_at otherwise.
C9_SetStatusAllowed ==
  (resp.op = "set_status" /\ resp.data.status \in STATUS_CHOICE) =>
    /\ resp.exc = ""
    /\ tasks[resp.pk].status = resp.data.status
    /\ tasks[resp.pk].completed_at =
         IF resp.data.status # "completed" THEN None
         ELSE IF Before.completed_at = None THEN now
         ELSE Before.completed_at

\* C10: set_status with a value outside the allowed set fails with an error
\* listing pending, in_process and completed, and changes nothing.
C10_SetStatusRejected ==
  (resp.op = "set_status" /\ resp.data.status \notin STATUS_CHOICE) =>
    /\ resp.exc = "ValueError"
    /\ resp.errors = STATUS_CHOICE
    /\ tasks[resp.pk] = Before

\* C11: set_priority succeeds and stores the value exactly when the value is
\* low, medium or high; any other value fails with an error and leaves the
\* priority unchanged.
C11_SetPriority ==
  resp.op = "set_priority" =>
    IF resp.data.priority \in PRIORITY_CHOICES
    THEN resp.exc = "" /\ tasks[resp.pk].priority = resp.data.priority
    ELSE resp.exc = "ValueError" /\ tasks[resp.pk].priority = Before.priority

\* C12: a create or PATCH whose title is empty after trimming is refused with
\* a validation error on the title and changes no task; an accepted title is
\* stored trimmed; no stored title is empty or padded with whitespace.
C12_TitleValidated ==
  [][/\ ( /\ resp'.op \in {"create", "partial_update"}
          /\ resp'.op = "partial_update" => resp'.pk \in get_queryset(resp'.caller)
          /\ Has(resp'.data, "title")
          /\ strip(resp'.data.title) = <<>> )
        => (resp'.code = 400 /\ "title" \in resp'.errors /\ tasks' = tasks)
     /\ ( /\ resp'.op \in {"create", "partial_update"}
          /\ resp'.code \in {200, 201}
          /\ Has(resp'.data, "title") )
        => tasks'[resp'.pk].title = strip(resp'.data.title)
     /\ \A id \in DOMAIN tasks' :
          /\ tasks'[id].title # <<>>
          /\ strip(tasks'[id].title) = tasks'[id].title]_vars

\* a PATCH carrying a whitespace-padded title has just been applied
C12_Witness ==
  /\ resp.op = "partial_update"
  /\ resp.code = 200
  /\ Has(resp.data, "title")
  /\ strip(resp.data.title) # resp.data.title
  /\ tasks[resp.pk].title = strip(resp.data.title)

\* C13: a create or PATCH that leaves the task with a due date before today
\* is performed, and its response carries the past-due advisory string.
C13_PastDueWarning ==
  ( /\ resp.op \in {"create", "partial_update"}
    /\ resp.code \in {200, 201}
    /\ tasks[resp.pk].due_date # None
    /\ tasks[resp.pk].due_date < today )
  => /\ Has(resp.data, "due_date") => tasks[resp.pk].due_date = resp.data.due_date
     /\ \E t \in resp.tasks :
          /\ Has(t, "warning")
          /\ t.warning # <<>>
          /\ t.warning = get_warning(tasks[resp.pk])

\* C20: a successful PATCH carrying a valid status leaves the task stored with
\* that status, whatever the status was before, and applies the other fields
\* of the same request.
C20_PatchStatusStored ==
  (resp.op = "partial_update" /\ resp.code = 200 /\ Has(resp.data, "status"))
  => /\ tasks[resp.pk].status = resp.data.status
     /\ Has(resp.data, "due_date") => tasks[resp.pk].due_date = resp.data.due_date
     /\ Has(resp.data, "title") => tasks[resp.pk].title = strip(resp.data.title)

\* C19: every task mutation is one atomic record write: a reader that finds
\* the task as a PATCH request in flight has written it so far finds it with
\* all the changes of that PATCH, never with only part of them.
C19_AtomicRecordWrite ==
  \A c \in DOMAIN inflight :
    LET r == inflight[c] IN
    (/\ r.op = "partial_update"
     /\ r.saves > 0
     /\ resp.op = "retrieve"
     /\ resp.code = 200
     /\ resp.pk = r.pk
     /\ resp.tasks = {TaskSerializer(r.pk, r.instance)})
    => r.instance = TaskUpdateSerializer_update(r.before, Validated(r.data))

UserBefore == CHOOSE b \in resp.before : TRUE
\* the time of the last username change a user carries, None when unset
LastUsernameChange(user) == Get(user, "last_username_change", None)
AuthenticatedOps == {"logout", "profile_get", "profile_patch"}

\* C14: a profile update that would change the username to a free, well-formed
\* one fails while fewer than 14 whole days have passed since the user's last
\* username change, reports 14 minus the days passed and leaves the username
\* as it was; at 14 days, or when the user never changed username, it
\* succeeds and the new username is stored.
C14_UsernameCooldown ==
  (/\ resp.op = "profile_patch"
   /\ resp.before # {}
   /\ DOMAIN resp.data = {"username"}
   /\ resp.data.username # UserBefore.username
   /\ isalnum(replace_underscore(resp.data.username))
   /\ ~username_exists(resp.data.username, resp.pk))
  => LET last == LastUsernameChange(UserBefore) IN
     IF last # None /\ today - last < CooldownDays
     THEN /\ resp.code = 400
          /\ resp.days_left = CooldownDays - (today - last)
          /\ users[resp.pk].username = UserBefore.username
     ELSE /\ resp.code = 200
          /\ users[resp.pk].username = resp.data.username

\* C15: a profile update that omits the username or repeats the stored one
\* leaves last_username_change as it was and is not turned down by the
\* cooldown: it gets no cooldown error and does not fail in the cooldown check.
C15_NoCooldownWithoutChange ==
  (/\ resp.op = "profile_patch"
   /\ resp.before # {}
   /\ Get(resp.data, "username", UserBefore.username) = UserBefore.username)
  => /\ LastUsernameChange(users[resp.pk]) = LastUsernameChange(UserBefore)
     /\ resp.days_left = None
     /\ resp.raised_in # "can_change_username"

\* C18: a successful logout removes the token presented; a request that
\* presents a key naming no token is unauthenticated, and only a login or a
\* registration brings a token into being; a successful login returns a token
\* of the user, the one the user already held if there was one; no user ever
\* holds two tokens.
C18_TokenLifecycle ==
  [][/\ (resp'.op = "logout" /\ resp'.code = 200) => resp'.key \notin DOMAIN tokens'
     /\ (resp'.op \in AuthenticatedOps /\ resp'.key \notin DOMAIN tokens)
          => resp'.code = 401
     /\ (DOMAIN tokens' \ DOMAIN tokens # {}) => resp'.op \in {"login", "register"}
     /\ (resp'.op = "login" /\ resp'.code = 200)
          => /\ resp'.token \in DOMAIN tokens'
             /\ tokens'[resp'.token] = resp'.pk
             /\ \A k \in DOMAIN tokens : tokens[k] = resp'.pk => resp'.token = k
     /\ \A k1, k2 \in DOMAIN tokens' : tokens'[k1] = tokens'[k2] => k1 = k2]_vars

\* the only user logged out and logged in again, and holds a second token
C18_Witness ==
  /\ resp.op = "login"
  /\ resp.code = 200
  /\ Cardinality(DOMAIN users) = 1
  /\ resp.token = 2
  /\ DOMAIN tokens = {2}

\* C16: no two users share a username or a non-empty email, and a register or
\* profile-update request, however requests interleave, that would give a
\* user the username or the non-empty email of another one ends in a
\* validation error and changes no user.
C16_UniqueUsers ==
  [][/\ \A u1, u2 \in DOMAIN users' :
          u1 # u2 => /\ users'[u1].username # users'[u2].username
                     /\ Truthy(users'[u1].email) => users'[u1].email # users'[u2].email
     /\ (/\ DOMAIN inflight' \subseteq DOMAIN inflight
         /\ resp'.op \in {"register", "profile_patch"}
         /\ resp'.code # 401
         /\ \E o \in (DOMAIN users) \ {resp'.pk} :
              \/ Has(resp'.data, "username") /\ users[o].username = resp'.data.username
              \/ /\ Has(resp'.data, "email")
                 /\ Truthy(resp'.data.email)
                 /\ users[o].email = resp'.data.email)
        => /\ resp'.code = 400
           /\ resp'.errors \cap {"username", "email"} # {}
           /\ users' = users]_vars

\* C17: a create, PATCH, register or profile-update request that fails
\* validation leaves the whole store as it was: no task, user or token is
\* created and none is modified.
C17_NoPartialWrites ==
  [][(/\ resp'.op \in {"create", "partial_update", "register", "profile_patch"}
      /\ resp'.code = 400)
     => /\ tasks' = tasks
        /\ next_id' = next_id
        /\ users' = users
        /\ next_uid' = next_uid
        /\ tokens' = tokens]_vars

\* a PATCH with one valid and one invalid field was refused on a stored task
C17_Witness ==
  /\ resp.op = "partial_update"
  /\ resp.code = 400
  /\ resp.errors = {"status"}
  /\ Has(resp.data, "due_date")
  /\ DOMAIN users # {}

====
